---- MODULE Spec2Model ----
(***************************************************************************)
(* Chain identity resolution, ruleset derivation and Evolve overlay        *)
(* extraction of crates/primitives/src/genesis.rs, and the job of          *)
(* bin/client-evolve/src/main.rs that drives them.                         *)
(***************************************************************************)
EXTENDS Integers, Sequences, FiniteSets, TLC

(***************************************************************************)
(* Option<T> is a sequence of length at most one: None is <<>>, Some(x) is *)
(* <<x>>.                                                                  *)
(***************************************************************************)
None == <<>>
Some(x) == <<x>>
IsSome(o) == Len(o) = 1

(***************************************************************************)
(* serde_json::Value, the type of the entries of ChainConfig.extra_fields. *)
(* One record shape for every kind: t is the kind, n the magnitude of a    *)
(* number, s a string's text or a number's sign, kids the members of an    *)
(* array or object, each [k |-> key, v |-> value] (k = "" in an array).    *)
(* An object's members are kept in key order (serde_json's Map is a        *)
(* BTreeMap).                                                              *)
(***************************************************************************)
JNull == [t |-> "Null", n |-> 0, s |-> "", kids |-> <<>>]
JBool(b) == [t |-> "Bool", n |-> IF b THEN 1 ELSE 0, s |-> "", kids |-> <<>>]
JPosInt(n) == [t |-> "PosInt", n |-> n, s |-> "", kids |-> <<>>]
JNegInt(n) == [t |-> "NegInt", n |-> n, s |-> "-", kids |-> <<>>]
JFloat(sign, n) == [t |-> "Float", n |-> n, s |-> sign, kids |-> <<>>]
JString(s) == [t |-> "String", n |-> 0, s |-> s, kids |-> <<>>]
JArray(elems) == [t |-> "Array", n |-> 0, s |-> "",
                  kids |-> [i \in 1..Len(elems) |-> [k |-> "", v |-> elems[i]]]]
JObject(members) == [t |-> "Object", n |-> 0, s |-> "", kids |-> members]

Member(k, v) == [k |-> k, v |-> v]

(***************************************************************************)
(* PartialEq of serde_json::Value, which the derived PartialEq of Genesis  *)
(* reaches through ChainConfig.  Numbers compare by variant and value, and *)
(* two floats compare as f64 (so 0.0 == -0.0).                             *)
(***************************************************************************)
RECURSIVE ValueEq(_, _)
ValueEq(a, b) ==
    /\ a.t = b.t
    /\ CASE a.t = "Float" -> a.n = b.n /\ (a.n = 0 \/ a.s = b.s)
         [] a.t \in {"Array", "Object"} ->
                /\ Len(a.kids) = Len(b.kids)
                /\ \A i \in 1..Len(a.kids) :
                      /\ a.kids[i].k = b.kids[i].k
                      /\ ValueEq(a.kids[i].v, b.kids[i].v)
         [] OTHER -> a = b

(***************************************************************************)
(* JSON text, as the sequence of its lexemes.  Two texts are the same      *)
(* bytes exactly when they are the same sequence: every lexeme stands for  *)
(* one spelling ("0", "0.0" and "-0.0" are three lexemes).                 *)
(***************************************************************************)
Lex(l, n, s) == [l |-> l, n |-> n, s |-> s]
Punct(c) == Lex(c, 0, "")

RECURSIVE JsonText(_)
RECURSIVE MembersText(_, _, _)
(* serde_json::to_string / to_vec of a Value *)
JsonText(v) ==
    CASE v.t = "Null" -> <<Punct("null")>>
      [] v.t = "Bool" -> <<Punct(IF v.n = 1 THEN "true" ELSE "false")>>
      [] v.t = "PosInt" -> <<Lex("int", v.n, "")>>
      [] v.t = "NegInt" -> <<Lex("int", v.n, "-")>>
      [] v.t = "Float" -> <<Lex("float", v.n, v.s)>>
      [] v.t = "String" -> <<Lex("str", 0, v.s)>>
      [] v.t = "Array" -> <<Punct("[")>> \o MembersText(v.kids, 1, FALSE) \o <<Punct("]")>>
      [] v.t = "Object" -> <<Punct("{")>> \o MembersText(v.kids, 1, TRUE) \o <<Punct("}")>>

MembersText(kids, i, keyed) ==
    IF i > Len(kids) THEN <<>>
    ELSE (IF i > 1 THEN <<Punct(",")>> ELSE <<>>)
         \o (IF keyed THEN <<Lex("str", 0, kids[i].k), Punct(":")>> ELSE <<>>)
         \o JsonText(kids[i].v)
         \o MembersText(kids, i + 1, keyed)

(***************************************************************************)
(* BTreeMap<String, _>: a sequence of members in ascending key order.      *)
(* KeyOrder lists the keys the model uses in the byte order of Rust's Ord  *)
(* for String.                                                             *)
(***************************************************************************)
KeyOrder ==
    << "baseFeeRedirectActivationHeight", "baseFeeSink", "cancun",
       "contractSizeLimit", "contractSizeLimitActivationHeight",
       "eip1559Denominator", "eip1559Elasticity", "evolve",
       "mintAdmin", "mintPrecompileActivationHeight", "optimism", "prague",
       "unknownKey" >>

KeyRank(k) == CHOOSE i \in 1..Len(KeyOrder) : KeyOrder[i] = k

(* BTreeMap::insert: the member goes to its place in key order and         *)
(* replaces a member of the same key.                                      *)
BTreeInsert(m, k, v) ==
    LET lower == SelectSeq(m, LAMBDA e : KeyRank(e.k) < KeyRank(k))
        upper == SelectSeq(m, LAMBDA e : KeyRank(e.k) > KeyRank(k))
    IN  lower \o <<Member(k, v)>> \o upper

(* BTreeMap::get *)
BTreeGet(m, k) ==
    LET hit == SelectSeq(m, LAMBDA e : e.k = k)
    IN  IF hit = <<>> THEN None ELSE Some(hit[1].v)

(***************************************************************************)
(* serde_json::from_str::<Value>: a recursive-descent parse of the text.   *)
(* The result is [ok, v, next]: next is the position after the value.      *)
(***************************************************************************)
ParseFail == [ok |-> FALSE, v |-> JNull, next |-> 0]
ParseDone(v, next) == [ok |-> TRUE, v |-> v, next |-> next]

RECURSIVE ParseValue(_, _)
RECURSIVE ParseMembers(_, _, _, _)
ParseValue(text, i) ==
    IF i > Len(text) THEN ParseFail
    ELSE LET x == text[i]
         IN  CASE x.l = "null" -> ParseDone(JNull, i + 1)
               [] x.l = "true" -> ParseDone(JBool(TRUE), i + 1)
               [] x.l = "false" -> ParseDone(JBool(FALSE), i + 1)
               [] x.l = "int" ->
                      ParseDone(IF x.s = "" THEN JPosInt(x.n)
                                ELSE IF x.n = 0 THEN JFloat("-", 0)
                                ELSE JNegInt(x.n), i + 1)
               [] x.l = "float" -> ParseDone(JFloat(x.s, x.n), i + 1)
               [] x.l = "str" -> ParseDone(JString(x.s), i + 1)
               [] x.l = "[" -> ParseMembers(text, i + 1, <<>>, FALSE)
               [] x.l = "{" -> ParseMembers(text, i + 1, <<>>, TRUE)
               [] OTHER -> ParseFail

(* The members of an array (keyed = FALSE) or object (keyed = TRUE) from   *)
(* position i on; acc holds the members read so far.                       *)
ParseMembers(text, i, acc, keyed) ==
    LET close == IF keyed THEN "}" ELSE "]"
        made(kids) == IF keyed THEN JObject(kids)
                      ELSE [t |-> "Array", n |-> 0, s |-> "", kids |-> kids]
    IN  IF i > Len(text) THEN ParseFail
        ELSE IF text[i].l = close
        THEN (IF acc = <<>> THEN ParseDone(made(acc), i + 1) ELSE ParseFail)
        ELSE IF keyed /\ ~(i + 1 <= Len(text) /\ text[i].l = "str" /\ text[i + 1].l = ":")
        THEN ParseFail
        ELSE LET key == IF keyed THEN text[i].s ELSE ""
                 r == ParseValue(text, IF keyed THEN i + 2 ELSE i)
                 kids == IF keyed THEN BTreeInsert(acc, key, r.v)
                         ELSE Append(acc, Member("", r.v))
             IN  IF ~r.ok \/ r.next > Len(text) THEN ParseFail
                 ELSE IF text[r.next].l = close THEN ParseDone(made(kids), r.next + 1)
                 ELSE IF text[r.next].l = "," THEN ParseMembers(text, r.next + 1, kids, keyed)
                 ELSE ParseFail

(* str::parse::<Value>: the whole text is one value *)
ParseJson(text) ==
    LET r == ParseValue(text, 1)
    IN  IF r.ok /\ r.next = Len(text) + 1 THEN Some(r.v) ELSE None

(***************************************************************************)
(* Result<T, ChainSpecError>: ok, the error's name and the id it carries,  *)
(* and the value as an Option.                                             *)
(***************************************************************************)
Ok(x) == [ok |-> TRUE, err |-> "", id |-> 0, v |-> Some(x)]
Err(e, id) == [ok |-> FALSE, err |-> e, id |-> id, v |-> None]

(***************************************************************************)
(* alloy_genesis::ChainConfig: the chain id, the open map of extension     *)
(* metadata (extra_fields) and the blob schedule.  Genesis: the variant    *)
(* and, for Custom, its configuration record.                              *)
(***************************************************************************)
ChainConfig(chain_id, extra_fields, blob_schedule) ==
    [chain_id |-> chain_id, extra_fields |-> extra_fields, blob_schedule |-> blob_schedule]

NamedVariants == {"Mainnet", "OpMainnet", "Sepolia", "Holesky", "Linea"}

Named(variant) == [variant |-> variant, config |-> None]
Custom(config) == [variant |-> "Custom", config |-> Some(config)]

(* #[derive(PartialEq, Eq)] of Genesis, through that of ChainConfig *)
MapEq(a, b) ==
    /\ Len(a) = Len(b)
    /\ \A i \in 1..Len(a) : a[i].k = b[i].k /\ ValueEq(a[i].v, b[i].v)

ConfigEq(a, b) ==
    /\ a.chain_id = b.chain_id
    /\ MapEq(a.extra_fields, b.extra_fields)
    /\ a.blob_schedule = b.blob_schedule

GenesisEq(a, b) ==
    /\ a.variant = b.variant
    /\ a.variant = "Custom" => ConfigEq(a.config[1], b.config[1])

(***************************************************************************)
(* serde_json::to_vec(config): the JSON object of the record, the entries  *)
(* of extra_fields flattened into it in key order.                         *)
(***************************************************************************)
BlobParamsText(p) ==
    << Punct("{"),
       Lex("str", 0, "target"), Punct(":"), Lex("int", p.target_blob_count, ""), Punct(","),
       Lex("str", 0, "max"), Punct(":"), Lex("int", p.max_blob_count, ""), Punct(","),
       Lex("str", 0, "baseFeeUpdateFraction"), Punct(":"), Lex("int", p.update_fraction, ""), Punct(","),
       Lex("str", 0, "minBlobFee"), Punct(":"), Lex("int", p.min_blob_fee, ""), Punct(","),
       Lex("str", 0, "maxBlobsPerTx"), Punct(":"), Lex("int", p.max_blobs_per_tx, ""), Punct(","),
       Lex("str", 0, "blobBaseCost"), Punct(":"), Lex("int", p.blob_base_cost, ""),
       Punct("}") >>

RECURSIVE BlobScheduleText(_, _)
BlobScheduleText(m, i) ==
    IF i > Len(m) THEN <<>>
    ELSE (IF i > 1 THEN <<Punct(",")>> ELSE <<>>)
         \o <<Lex("str", 0, m[i].k), Punct(":")>> \o BlobParamsText(m[i].v)
         \o BlobScheduleText(m, i + 1)

RECURSIVE FlattenedText(_, _)
FlattenedText(m, i) ==
    IF i > Len(m) THEN <<>>
    ELSE <<Punct(","), Lex("str", 0, m[i].k), Punct(":")>> \o JsonText(m[i].v)
         \o FlattenedText(m, i + 1)

ConfigJson(config) ==
    <<Punct("{"), Lex("str", 0, "chainId"), Punct(":"), Lex("int", config.chain_id, "")>>
    \o FlattenedText(config.extra_fields, 1)
    \o (IF config.blob_schedule = <<>> THEN <<>>
        ELSE <<Punct(","), Lex("str", 0, "blobSchedule"), Punct(":"), Punct("{")>>
             \o BlobScheduleText(config.blob_schedule, 1) \o <<Punct("}")>>)
    \o <<Punct("}")>>

(***************************************************************************)
(* impl Hash for Genesis: what hash() feeds to the hasher.  A named        *)
(* variant feeds an integer, Custom the bytes of its JSON serialization.   *)
(***************************************************************************)
MAINNET_ID == 1
OP_MAINNET_ID == 10
HOLESKY_ID == 17000
LINEA_ID == 59144
SEPOLIA_ID == 11155111

HashInt(n) == [kind |-> "i32", n |-> n, buf |-> <<>>]
HashBuf(buf) == [kind |-> "bytes", n |-> Len(buf), buf |-> buf]

hash(genesis) ==
    CASE genesis.variant = "Mainnet" -> HashInt(MAINNET_ID)
      [] genesis.variant = "OpMainnet" -> HashInt(OP_MAINNET_ID)
      [] genesis.variant = "Sepolia" -> HashInt(SEPOLIA_ID)
      [] genesis.variant = "Holesky" -> HashInt(HOLESKY_ID)
      [] genesis.variant = "Linea" -> HashInt(LINEA_ID)
      [] genesis.variant = "Custom" -> HashBuf(ConfigJson(genesis.config[1]))

(* try_from with the arms of Holesky and Sepolia exchanged *)
try_from_u64_swapped(value) ==
    CASE value = MAINNET_ID -> Ok(Named("Mainnet"))
      [] value = OP_MAINNET_ID -> Ok(Named("OpMainnet"))
      [] value = HOLESKY_ID -> Ok(Named("Sepolia"))
      [] value = LINEA_ID -> Ok(Named("Linea"))
      [] value = SEPOLIA_ID -> Ok(Named("Holesky"))
      [] OTHER -> Err("ChainNotSupported", value)

(***************************************************************************)
(* impl TryFrom<u64> for Genesis                                           *)
(***************************************************************************)
try_from_u64(value) ==
    CASE value = MAINNET_ID -> Ok(Named("Mainnet"))
      [] value = OP_MAINNET_ID -> Ok(Named("OpMainnet"))
      [] value = HOLESKY_ID -> Ok(Named("Holesky"))
      [] value = LINEA_ID -> Ok(Named("Linea"))
      [] value = SEPOLIA_ID -> Ok(Named("Sepolia"))
      [] OTHER -> Err("ChainNotSupported", value)

(***************************************************************************)
(* The derived protocol ruleset (reth_chainspec::ChainSpec): the fields    *)
(* the conversions set.                                                    *)
(***************************************************************************)
Ruleset(chain, genesis, hardforks, base_fee_params, prune_delete_limit, blob_params) ==
    [chain |-> chain, genesis |-> genesis, hardforks |-> hardforks,
     base_fee_params |-> base_fee_params, prune_delete_limit |-> prune_delete_limit,
     blob_params |-> blob_params]

(* ChainSpec::from_genesis: the generic genesis-to-ruleset transform *)
ChainSpecFromGenesis(chain_id, origin) ==
    Ruleset(chain_id, origin, "from_genesis", "from_genesis", "from_genesis", "from_genesis")

(* genesis_from_json(LINEA_GENESIS_JSON): the bundled payload parses or not *)
genesis_from_json(payload_ok) ==
    IF payload_ok THEN Ok(LINEA_ID) ELSE Err("SerdeJson", 0)

(* the OpMainnet arm producing a ruleset instead of the error *)
OpMainnetSubstituted ==
    Ok(Ruleset(OP_MAINNET_ID, "default", "op_mainnet", "Constant(ethereum)", "10000",
               "default"))

(* impl TryFrom<&Genesis> for ChainSpec *)
OpMainnetToChainSpec == Err("InvalidConversion", 0)

chain_spec_try_from(value, payload_ok) ==
    CASE value.variant = "Mainnet" ->
             Ok(Ruleset(MAINNET_ID, "default", "mainnet", "Constant(ethereum)",
                        "MAINNET_PRUNE_DELETE_LIMIT", "default+mainnet_bpo1+mainnet_bpo2"))
      [] value.variant = "Sepolia" ->
             Ok(Ruleset(SEPOLIA_ID, "default", "sepolia", "Constant(ethereum)",
                        "10000", "default+sepolia_bpo1+sepolia_bpo2"))
      [] value.variant = "Holesky" ->
             Ok(Ruleset(HOLESKY_ID, "default", "holesky", "Constant(ethereum)",
                        "10000", "default+holesky_bpo1+holesky_bpo2"))
      [] value.variant = "OpMainnet" -> OpMainnetToChainSpec
      [] value.variant = "Linea" ->
             LET parsed == genesis_from_json(payload_ok)
             IN  IF parsed.ok THEN Ok(ChainSpecFromGenesis(parsed.v[1], "linea"))
                 ELSE parsed
      [] value.variant = "Custom" ->
             Ok(ChainSpecFromGenesis(value.config[1].chain_id, "custom"))

(* the catch-all arm falling back to the primary family's ruleset *)
PrimaryAsOpChainSpec(value) == chain_spec_try_from(value, TRUE)

(* impl TryFrom<&Genesis> for OpChainSpec (feature "optimism") *)
PrimaryOnlyToOpChainSpec(value) == Err("InvalidConversion", 0)

op_chain_spec_try_from(value) ==
    CASE value.variant = "OpMainnet" ->
             Ok(Ruleset(OP_MAINNET_ID, "default", "op_mainnet",
                        "Variable(london:optimism,canyon:optimism_canyon)",
                        "10000", "default"))
      [] value.variant = "Custom" ->
             Ok(ChainSpecFromGenesis(value.config[1].chain_id, "custom"))
      [] OTHER -> PrimaryOnlyToOpChainSpec(value)

(***************************************************************************)
(* EvolveConfig and its derived Deserialize.  The fields in declaration    *)
(* order, each with its serde name and its type.                           *)
(***************************************************************************)
EvolveFields ==
    << [name |-> "base_fee_sink", key |-> "baseFeeSink", type |-> "Address"],
       [name |-> "base_fee_redirect_activation_height",
        key |-> "baseFeeRedirectActivationHeight", type |-> "u64"],
       [name |-> "mint_admin", key |-> "mintAdmin", type |-> "Address"],
       [name |-> "mint_precompile_activation_height",
        key |-> "mintPrecompileActivationHeight", type |-> "u64"],
       [name |-> "contract_size_limit", key |-> "contractSizeLimit", type |-> "usize"],
       [name |-> "contract_size_limit_activation_height",
        key |-> "contractSizeLimitActivationHeight", type |-> "u64"] >>

(* the two activation heights renamed to each other's key *)
EvolveConfigHeightsCrossed(f) ==
    [base_fee_sink |-> f[1], base_fee_redirect_activation_height |-> f[4],
     mint_admin |-> f[3], mint_precompile_activation_height |-> f[2],
     contract_size_limit |-> f[5], contract_size_limit_activation_height |-> f[6]]

EvolveConfig(f) ==
    [base_fee_sink |-> f[1], base_fee_redirect_activation_height |-> f[2],
     mint_admin |-> f[3], mint_precompile_activation_height |-> f[4],
     contract_size_limit |-> f[5], contract_size_limit_activation_height |-> f[6]]

(* #[derive(Default)] *)
EvolveConfigDefault == EvolveConfig([i \in 1..6 |-> None])

(* Address::from_str of a JSON string: 40 hex digits, either case *)
AddrA == "aaaaaaaaaaaaaaaaaaaaaaaaaaaaaaaaaaaaaaaa"
AddrB == "bbbbbbbbbbbbbbbbbbbbbbbbbbbbbbbbbbbbbbbb"

ParseAddress(s) ==
    CASE s \in {"0xaaaaaaaaaaaaaaaaaaaaaaaaaaaaaaaaaaaaaaaa",
                "0xAAAAAAAAAAAAAAAAAAAAAAAAAAAAAAAAAAAAAAAA"} -> Some(AddrA)
      [] s \in {"0xbbbbbbbbbbbbbbbbbbbbbbbbbbbbbbbbbbbbbbbb",
                "0xBBBBBBBBBBBBBBBBBBBBBBBBBBBBBBBBBBBBBBBB"} -> Some(AddrB)
      [] OTHER -> None

(* Deserialize of Option<T> from a Value: null is None, any other value    *)
(* must deserialize as T.  The result is [ok, v], v the Option.            *)
FieldOk(opt) == [ok |-> TRUE, v |-> opt]
FieldErr == [ok |-> FALSE, v |-> None]

DeserializeOption(type, value) ==
    CASE value.t = "Null" -> FieldOk(None)
      [] type = "Address" /\ value.t = "String" ->
             IF IsSome(ParseAddress(value.s)) THEN FieldOk(ParseAddress(value.s))
             ELSE FieldErr
      [] type \in {"u64", "usize"} /\ value.t = "PosInt" -> FieldOk(Some(value.n))
      [] OTHER -> FieldErr

(* a field that is not an Option: missing is an error *)
MissingFieldRequired(type) == FieldErr

(* A field missing from the map is None (serde's missing_field for Option) *)
MissingField(type) == FieldOk(None)

(* Field i of the struct from an object (visit_map, by serde name, other   *)
(* keys ignored) or from an array (visit_seq, by position).                *)
DeserializeField(value, i) ==
    IF value.t = "Object"
    THEN LET got == BTreeGet(value.kids, EvolveFields[i].key)
         IN  IF got = None THEN MissingField(EvolveFields[i].type)
             ELSE DeserializeOption(EvolveFields[i].type, got[1])
    ELSE DeserializeOption(EvolveFields[i].type, value.kids[i].v)

(* serde_json::from_value::<EvolveConfig>(value) *)
from_value(value) ==
    IF value.t = "Object" \/ (value.t = "Array" /\ Len(value.kids) = Len(EvolveFields))
    THEN LET f == [i \in 1..Len(EvolveFields) |-> DeserializeField(value, i)]
         IN  IF \A i \in 1..Len(EvolveFields) : f[i].ok
             THEN [ok |-> TRUE, v |-> Some(EvolveConfig([i \in 1..Len(EvolveFields) |-> f[i].v]))]
             ELSE [ok |-> FALSE, v |-> None]
    ELSE [ok |-> FALSE, v |-> None]

(* Result::unwrap_or_default in place of ok *)
ResultUnwrapOrDefault(r) == IF r.ok THEN r.v ELSE Some(EvolveConfigDefault)

(* Result::ok *)
ResultOk(r) == IF r.ok THEN r.v ELSE None

(* from_chain_config defaulting the overlay when there is no section *)
from_chain_config_or_default(config) ==
    LET section == BTreeGet(config.extra_fields, "evolve")
    IN  IF section = None THEN Some(EvolveConfigDefault)
        ELSE (IF from_value(section[1]).ok THEN from_value(section[1]).v ELSE None)

(* EvolveConfig::from_chain_config *)
from_chain_config(config) ==
    LET section == BTreeGet(config.extra_fields, "evolve")
    IN  IF section = None THEN None ELSE ResultOk(from_value(section[1]))

(* EvolveConfig::from_genesis *)
from_genesis(genesis) ==
    IF genesis.variant = "Custom" THEN from_chain_config(genesis.config[1]) ELSE None

(***************************************************************************)
(* #[derive(Serialize, Deserialize)] of Genesis under bincode.  The wire   *)
(* is a sequence of fields: the variant index in declaration order as a    *)
(* u32 and, for Custom, the record in its bincode-compatible form          *)
(* (serde_bincode_compat::ChainConfig): the chain id, extra_fields as a    *)
(* map from key to the JSON text of the value, and the blob schedule.      *)
(***************************************************************************)
U32(n) == [w |-> "u32", n |-> n, s |-> "", j |-> <<>>]
U64(n) == [w |-> "u64", n |-> n, s |-> "", j |-> <<>>]
Str(s) == [w |-> "str", n |-> 0, s |-> s, j |-> <<>>]
JsonStr(text) == [w |-> "str", n |-> Len(text), s |-> "json", j |-> text]

VariantOrder == <<"Mainnet", "OpMainnet", "Sepolia", "Holesky", "Linea", "Custom">>

(* the variant index taken in the order of try_from's arms *)
VariantIndexByChainOrder(variant) ==
    LET order == <<"Mainnet", "OpMainnet", "Holesky", "Linea", "Sepolia", "Custom">>
    IN  (CHOOSE i \in 1..Len(order) : order[i] = variant) - 1

VariantIndex(variant) == (CHOOSE i \in 1..Len(VariantOrder) : VariantOrder[i] = variant) - 1

(* From<&ChainConfig> for the compatible form: each value to its JSON text *)
ExtraFieldWire(value) == JsonStr(JsonText(value))

RECURSIVE ExtraFieldsWire(_, _)
ExtraFieldsWire(m, i) ==
    IF i > Len(m) THEN <<>>
    ELSE <<Str(m[i].k), ExtraFieldWire(m[i].v)>> \o ExtraFieldsWire(m, i + 1)

BlobParamsWire(p) ==
    << U64(p.target_blob_count), U64(p.max_blob_count), U64(p.update_fraction),
       U64(p.min_blob_fee), U64(p.max_blobs_per_tx), U64(p.blob_base_cost) >>

RECURSIVE BlobScheduleWire(_, _)
BlobScheduleWire(m, i) ==
    IF i > Len(m) THEN <<>>
    ELSE <<Str(m[i].k)>> \o BlobParamsWire(m[i].v) \o BlobScheduleWire(m, i + 1)

ConfigWire(config) ==
    <<U64(config.chain_id), U64(Len(config.extra_fields))>>
    \o ExtraFieldsWire(config.extra_fields, 1)
    \o <<U64(Len(config.blob_schedule))>>
    \o BlobScheduleWire(config.blob_schedule, 1)

(* bincode::serialize(&genesis) *)
bincode_serialize(genesis) ==
    <<U32(VariantIndex(genesis.variant))>>
    \o (IF genesis.variant = "Custom" THEN ConfigWire(genesis.config[1]) ELSE <<>>)

(* Reading the wire back.  Every reader returns [ok, v, next]. *)
ReadFail == [ok |-> FALSE, v |-> <<>>, next |-> 0]
ReadDone(v, next) == [ok |-> TRUE, v |-> v, next |-> next]

Is(wire, i, kind) == i <= Len(wire) /\ wire[i].w = kind

(* From<compatible form> for ChainConfig: each text parsed back to a Value *)
RECURSIVE ReadExtraFields(_, _, _, _)
ReadExtraFields(wire, i, left, acc) ==
    IF left = 0 THEN ReadDone(acc, i)
    ELSE IF ~(Is(wire, i, "str") /\ Is(wire, i + 1, "str") /\ wire[i + 1].s = "json")
    THEN ReadFail
    ELSE LET value == ParseJson(wire[i + 1].j)
         IN  IF value = None THEN ReadFail
             ELSE ReadExtraFields(wire, i + 2, left - 1,
                                  BTreeInsert(acc, wire[i].s, value[1]))

RECURSIVE ReadBlobSchedule(_, _, _, _)
ReadBlobSchedule(wire, i, left, acc) ==
    IF left = 0 THEN ReadDone(acc, i)
    ELSE IF ~(Is(wire, i, "str") /\ \A d \in 1..6 : Is(wire, i + d, "u64"))
    THEN ReadFail
    ELSE ReadBlobSchedule(wire, i + 7, left - 1,
             BTreeInsert(acc, wire[i].s,
                 [target_blob_count |-> wire[i + 1].n, max_blob_count |-> wire[i + 2].n,
                  update_fraction |-> wire[i + 3].n, min_blob_fee |-> wire[i + 4].n,
                  max_blobs_per_tx |-> wire[i + 5].n, blob_base_cost |-> wire[i + 6].n]))

ReadConfig(wire, i) ==
    IF ~(Is(wire, i, "u64") /\ Is(wire, i + 1, "u64")) THEN ReadFail
    ELSE LET extra == ReadExtraFields(wire, i + 2, wire[i + 1].n, <<>>)
         IN  IF ~(extra.ok /\ Is(wire, extra.next, "u64")) THEN ReadFail
             ELSE LET blobs == ReadBlobSchedule(wire, extra.next + 1, wire[extra.next].n, <<>>)
                  IN  IF ~blobs.ok THEN ReadFail
                      ELSE ReadDone(ChainConfig(wire[i].n, extra.v, blobs.v), blobs.next)

(* bincode::deserialize::<Genesis>(&buf): Some(genesis), or None for an    *)
(* error.  Bytes after the value are allowed.                              *)
bincode_deserialize(wire) ==
    IF ~Is(wire, 1, "u32") \/ wire[1].n >= Len(VariantOrder) THEN None
    ELSE LET variant == VariantOrder[wire[1].n + 1]
         IN  IF variant # "Custom" THEN Some(Named(variant))
             ELSE LET config == ReadConfig(wire, 2)
                  IN  IF config.ok THEN Some(Custom(config.v)) ELSE None

(***************************************************************************)
(* The engine's use of the overlay (EvolveClientExecutor, section 4.4 of   *)
(* the specification): a feature is configured when its value is present,  *)
(* and a configured feature with activation height H applies at block      *)
(* height B iff B >= H.  What a configured feature without a height does   *)
(* is left open by the specification: heightless_active is either answer.  *)
(***************************************************************************)
Features ==
    << [feature |-> "base_fee_redirect", value |-> 1, height |-> 2],
       [feature |-> "mint_precompile", value |-> 3, height |-> 4],
       [feature |-> "contract_size_limit", value |-> 5, height |-> 6] >>

OverlayField(overlay, i) ==
    CASE i = 1 -> overlay.base_fee_sink
      [] i = 2 -> overlay.base_fee_redirect_activation_height
      [] i = 3 -> overlay.mint_admin
      [] i = 4 -> overlay.mint_precompile_activation_height
      [] i = 5 -> overlay.contract_size_limit
      [] i = 6 -> overlay.contract_size_limit_activation_height

FeatureApplies(overlay, f, B, heightless_active) ==
    /\ IsSome(OverlayField(overlay, f.value))
    /\ IF IsSome(OverlayField(overlay, f.height))
       THEN B >= OverlayField(overlay, f.height)[1]
       ELSE heightless_active

AppliedFeatures(evolve, B, heightless_active) ==
    IF evolve = None THEN {}
    ELSE {Features[i].feature : i \in
             {j \in 1..Len(Features) :
                 FeatureApplies(evolve[1], Features[j], B, heightless_active)}}

(***************************************************************************)
(* The inputs the model draws.                                             *)
(***************************************************************************)
MaxChainId == 11
MaxBlockHeight == 102
MaxInserts == 2

ChainIdInputs ==
    (0..MaxChainId) \cup
    {HOLESKY_ID - 1, HOLESKY_ID, LINEA_ID, LINEA_ID + 1, SEPOLIA_ID - 1, SEPOLIA_ID,
     11155420, 2147483647}

BlockHeights == {0} \cup (98..MaxBlockHeight)

(* A well-typed and an ill-typed value for each field of the section *)
GoodValue(i) ==
    CASE i = 1 -> JString("0xaaaaaaaaaaaaaaaaaaaaaaaaaaaaaaaaaaaaaaaa")
      [] i = 2 -> JPosInt(99)
      [] i = 3 -> JString("0xBBBBBBBBBBBBBBBBBBBBBBBBBBBBBBBBBBBBBBBB")
      [] i = 4 -> JPosInt(100)
      [] i = 5 -> JPosInt(49152)
      [] i = 6 -> JPosInt(101)

BadValue(i) ==
    CASE i = 1 -> JString("0xAA")
      [] i = 2 -> JString("99")
      [] i = 3 -> JPosInt(187)
      [] i = 4 -> JFloat("", 100)
      [] i = 5 -> JNegInt(1)
      [] i = 6 -> JBool(TRUE)

RECURSIVE SectionMembers(_, _, _)
SectionMembers(choice, i, acc) ==
    IF i > Len(EvolveFields) THEN acc
    ELSE SectionMembers(choice, i + 1,
             CASE choice[i] = "absent" -> acc
               [] choice[i] = "good" -> BTreeInsert(acc, EvolveFields[i].key, GoodValue(i))
               [] choice[i] = "bad" -> BTreeInsert(acc, EvolveFields[i].key, BadValue(i))
               [] choice[i] = "null" -> BTreeInsert(acc, EvolveFields[i].key, JNull))

ObjectSections ==
    {JObject(SectionMembers(c, 1, <<>>)) :
        c \in [1..Len(EvolveFields) -> {"absent", "good", "bad"}]}

OtherSections ==
    { JNull, JString("evolve"), JPosInt(1), JBool(TRUE),
      JArray(<<>>),
      JArray([i \in 1..6 |-> JNull]),
      JArray([i \in 1..6 |-> GoodValue(i)]),
      JArray([i \in 1..5 |-> GoodValue(i)]),
      JArray([i \in 1..7 |-> JNull]),
      JArray([i \in 1..6 |-> IF i = 4 THEN BadValue(i) ELSE GoodValue(i)]),
      JObject(<<Member("unknownKey", JPosInt(7))>>),
      JObject(<<Member("mintAdmin", GoodValue(3)),
                Member("mintPrecompileActivationHeight", GoodValue(4)),
                Member("unknownKey", JString("ignored"))>>),
      JObject(<<Member("mintAdmin", JNull),
                Member("mintPrecompileActivationHeight", GoodValue(4))>>),
      JObject(<<Member("baseFeeSink", GoodValue(1)),
                Member("contractSizeLimit", JNull),
                Member("contractSizeLimitActivationHeight", JNull)>>) }

Sections == ObjectSections \cup OtherSections

(* The blob schedule of test_custom_genesis_bincode_roundtrip *)
TestBlobSchedule ==
    << Member("cancun", [target_blob_count |-> 3, max_blob_count |-> 6,
                         update_fraction |-> 3338477, min_blob_fee |-> 1,
                         max_blobs_per_tx |-> 6, blob_base_cost |-> 0]),
       Member("prague", [target_blob_count |-> 6, max_blob_count |-> 9,
                         update_fraction |-> 5007716, min_blob_fee |-> 1,
                         max_blobs_per_tx |-> 9, blob_base_cost |-> 0]) >>

OptimismField ==
    JObject(<<Member("eip1559Denominator", JPosInt(50)),
              Member("eip1559Elasticity", JPosInt(6))>>)

ConfigInputs ==
    {ChainConfig(1234, <<Member("evolve", s)>>, <<>>) : s \in Sections}
    \cup
    { ChainConfig(1234, <<>>, <<>>),
      ChainConfig(11155420, <<Member("optimism", OptimismField)>>, TestBlobSchedule),
      ChainConfig(11155420, <<Member("evolve", JObject(SectionMembers(
                      [i \in 1..6 |-> "good"], 1, <<>>))),
                    Member("optimism", OptimismField)>>, TestBlobSchedule),
      ChainConfig(1234, <<Member("optimism", JFloat("-", 0))>>, <<>>),
      ChainConfig(1234, <<Member("optimism", JFloat("", 0))>>, <<>>),
      ChainConfig(1234, <<Member("optimism", JArray(<<JNegInt(3), JFloat("-", 2),
                      JString("x"), JBool(FALSE), JNull>>))>>, <<>>) }

(***************************************************************************)
(* The state.  A job starts on the host, which resolves a chain id or      *)
(* takes a custom configuration and writes the job's input; the client     *)
(* (main) reads the input, derives the ruleset, builds the executor with   *)
(* the overlay, executes and commits the header.                           *)
(***************************************************************************)
VARIABLES
    pc,             \* where the job is
    payload_ok,     \* whether the bundled Linea genesis payload parses
    chain_id,       \* the numeric id asked of try_from, as an Option
    resolved,       \* the result of try_from, as an Option
    genesis,        \* the host's Genesis value, as an Option
    wire,           \* the bytes of the job's input
    input_genesis,  \* input.genesis as main deserialized it, as an Option
    chain_spec,     \* the result of the ChainSpec conversion, as an Option
    op_chain_spec,  \* the result of the OpChainSpec conversion, as an Option
    evolve,         \* the overlay from_genesis returned
    header,         \* the executed header, as an Option
    committed,      \* the committed header, as an Option
    steps,          \* the steps main has run, in order
    left,           \* the first Genesis value of a hashed pair
    right,          \* the second
    inserts,        \* how many entries were inserted into the pair
    hashes          \* what hash() fed the hasher for each, as an Option

vars ==
    << pc, payload_ok, chain_id, resolved, genesis, wire, input_genesis, chain_spec,
       op_chain_spec, evolve, header, committed, steps, left, right, inserts, hashes >>

jobVars ==
    << pc, payload_ok, chain_id, resolved, genesis, wire, input_genesis, chain_spec,
       op_chain_spec, evolve, header, committed, steps >>

pairVars == << left, right, inserts, hashes >>

Init ==
    /\ pc = "host"
    /\ payload_ok \in BOOLEAN
    /\ chain_id = None
    /\ resolved = None
    /\ genesis = None
    /\ wire = <<>>
    /\ input_genesis = None
    /\ chain_spec = None
    /\ op_chain_spec = None
    /\ evolve = None
    /\ header = None
    /\ committed = None
    /\ steps = <<>>
    /\ left = Named("Mainnet")
    /\ right = Named("Mainnet")
    /\ inserts = <<0, 0>>
    /\ hashes = None

(* Genesis::try_from(id) on the host *)
Resolve(id) ==
    /\ pc = "host"
    /\ chain_id' = Some(id)
    /\ resolved' = Some(try_from_u64(id))
    /\ genesis' = try_from_u64(id).v
    /\ pc' = IF try_from_u64(id).ok THEN "resolved" ELSE "aborted"
    /\ UNCHANGED << payload_ok, wire, input_genesis, chain_spec, op_chain_spec, evolve,
                    header, committed, steps >>
    /\ UNCHANGED pairVars

(* Genesis::Custom(config) on the host *)
TakeCustom(config) ==
    /\ pc = "host"
    /\ genesis' = Some(Custom(config))
    /\ pc' = "resolved"
    /\ UNCHANGED << payload_ok, chain_id, resolved, wire, input_genesis, chain_spec,
                    op_chain_spec, evolve, header, committed, steps >>
    /\ UNCHANGED pairVars

(* OpChainSpec::try_from(&genesis) *)
DeriveOpRuleset ==
    /\ pc = "resolved"
    /\ op_chain_spec' = Some(op_chain_spec_try_from(genesis[1]))
    /\ pc' = "op_derived"
    /\ UNCHANGED << payload_ok, chain_id, resolved, genesis, wire, input_genesis,
                    chain_spec, evolve, header, committed, steps >>
    /\ UNCHANGED pairVars

(* EvolveConfig::from_genesis(&genesis) *)
ExtractOverlay ==
    /\ pc = "resolved"
    /\ evolve' = from_genesis(genesis[1])
    /\ pc' = "extracted"
    /\ UNCHANGED << payload_ok, chain_id, resolved, genesis, wire, input_genesis,
                    chain_spec, op_chain_spec, header, committed, steps >>
    /\ UNCHANGED pairVars

(* bincode::serialize(&genesis): the host writes the job's input *)
SerializeInput ==
    /\ pc = "resolved"
    /\ wire' = bincode_serialize(genesis[1])
    /\ pc' = "input"
    /\ UNCHANGED << payload_ok, chain_id, resolved, genesis, input_genesis, chain_spec,
                    op_chain_spec, evolve, header, committed, steps >>
    /\ UNCHANGED pairVars

(* The job is handed bytes that are no serialized input: cut short, or     *)
(* with a variant index no variant has.                                    *)
MalformedInputs(good) ==
    {SubSeq(good, 1, Len(good) - 1), <<U32(Len(VariantOrder))>>, <<Str("genesis")>>}

MalformedInput ==
    /\ pc = "resolved"
    /\ \E bad \in MalformedInputs(bincode_serialize(genesis[1])) : wire' = bad
    /\ pc' = "input"
    /\ UNCHANGED << payload_ok, chain_id, resolved, genesis, input_genesis, chain_spec,
                    op_chain_spec, evolve, header, committed, steps >>
    /\ UNCHANGED pairVars

(* main: bincode::deserialize(&input).unwrap() *)
ReadInput ==
    /\ pc = "input"
    /\ steps' = Append(steps, "deserialize")
    /\ input_genesis' = bincode_deserialize(wire)
    /\ pc' = IF IsSome(bincode_deserialize(wire)) THEN "deserialized" ELSE "aborted"
    /\ UNCHANGED << payload_ok, chain_id, resolved, genesis, wire, chain_spec,
                    op_chain_spec, evolve, header, committed >>
    /\ UNCHANGED pairVars

(* unwrap_or_default in place of unwrap: main goes on after a failure *)
AfterDeriveUnwrapOrDefault(result) == "derived"

(* main: (&input.genesis).try_into().unwrap() *)
AfterDerive(result) == IF result.ok THEN "derived" ELSE "aborted"

DeriveRuleset ==
    /\ pc = "deserialized"
    /\ steps' = Append(steps, "derive")
    /\ chain_spec' = Some(chain_spec_try_from(input_genesis[1], payload_ok))
    /\ pc' = AfterDerive(chain_spec_try_from(input_genesis[1], payload_ok))
    /\ UNCHANGED << payload_ok, chain_id, resolved, genesis, wire, input_genesis,
                    op_chain_spec, evolve, header, committed >>
    /\ UNCHANGED pairVars

(* main: EvolveClientExecutor::evolve(chain_spec, beneficiary, &input.genesis) *)
BuildExecutor ==
    /\ pc = "derived"
    /\ steps' = Append(steps, "executor")
    /\ evolve' = from_genesis(input_genesis[1])
    /\ pc' = "executor"
    /\ UNCHANGED << payload_ok, chain_id, resolved, genesis, wire, input_genesis,
                    chain_spec, op_chain_spec, header, committed >>
    /\ UNCHANGED pairVars

(* main: executor.execute(input).expect(..), of a block at height B *)
Execute(B, heightless_active) ==
    /\ pc = "executor"
    /\ steps' = Append(steps, "execute")
    /\ header' = Some([height |-> B, ruleset |-> chain_spec[1].v,
                       applied |-> AppliedFeatures(evolve, B, heightless_active)])
    /\ pc' = "executed"
    /\ UNCHANGED << payload_ok, chain_id, resolved, genesis, wire, input_genesis,
                    chain_spec, op_chain_spec, evolve, committed >>
    /\ UNCHANGED pairVars

ExecuteFails ==
    /\ pc = "executor"
    /\ steps' = Append(steps, "execute")
    /\ pc' = "aborted"
    /\ UNCHANGED << payload_ok, chain_id, resolved, genesis, wire, input_genesis,
                    chain_spec, op_chain_spec, evolve, header, committed >>
    /\ UNCHANGED pairVars

(* main: sp1_zkvm::io::commit(&header.into()) *)
Commit ==
    /\ pc = "executed"
    /\ steps' = Append(steps, "commit")
    /\ committed' = header
    /\ pc' = "committed"
    /\ UNCHANGED << payload_ok, chain_id, resolved, genesis, wire, input_genesis,
                    chain_spec, op_chain_spec, evolve, header >>
    /\ UNCHANGED pairVars

Next ==
    \/ \E id \in ChainIdInputs : Resolve(id)
    \/ \E config \in ConfigInputs : TakeCustom(config)
    \/ DeriveOpRuleset
    \/ ExtractOverlay
    \/ SerializeInput
    \/ MalformedInput
    \/ ReadInput
    \/ DeriveRuleset
    \/ BuildExecutor
    \/ \E B \in BlockHeights, heightless_active \in BOOLEAN : Execute(B, heightless_active)
    \/ ExecuteFails
    \/ Commit

Spec == Init /\ [][Next]_vars

(***************************************************************************)
(* Hashing a pair of Genesis values.  Each value is a named variant or a   *)
(* Custom record built by inserting entries into its extra_fields, in any  *)
(* order (as the test builds its blob schedule); then both are hashed.     *)
(***************************************************************************)
PairSeeds ==
    {Named(v) : v \in NamedVariants} \cup {Custom(ChainConfig(1234, <<>>, <<>>))}

InsertKeys == {"evolve", "optimism"}

InsertValues ==
    { JPosInt(0), JFloat("", 0), JFloat("-", 0),
      JObject(<<Member("mintAdmin", GoodValue(3))>>) }

(* config.extra_fields.insert(k, v) *)
InsertExtraField(g, k, v) ==
    Custom(ChainConfig(g.config[1].chain_id,
                       BTreeInsert(g.config[1].extra_fields, k, v),
                       g.config[1].blob_schedule))

InitPair ==
    /\ pc = "host"
    /\ payload_ok = TRUE
    /\ chain_id = None
    /\ resolved = None
    /\ genesis = None
    /\ wire = <<>>
    /\ input_genesis = None
    /\ chain_spec = None
    /\ op_chain_spec = None
    /\ evolve = None
    /\ header = None
    /\ committed = None
    /\ steps = <<>>
    /\ left \in PairSeeds
    /\ right \in PairSeeds
    /\ inserts = <<0, 0>>
    /\ hashes = None

InsertLeft(k, v) ==
    /\ hashes = None
    /\ left.variant = "Custom"
    /\ inserts[1] < MaxInserts
    /\ left' = InsertExtraField(left, k, v)
    /\ inserts' = <<inserts[1] + 1, inserts[2]>>
    /\ UNCHANGED << right, hashes >>
    /\ UNCHANGED jobVars

InsertRight(k, v) ==
    /\ hashes = None
    /\ right.variant = "Custom"
    /\ inserts[2] < MaxInserts
    /\ right' = InsertExtraField(right, k, v)
    /\ inserts' = <<inserts[1], inserts[2] + 1>>
    /\ UNCHANGED << left, hashes >>
    /\ UNCHANGED jobVars

(* left.hash(state) and right.hash(state), each into a fresh hasher *)
HashPair ==
    /\ hashes = None
    /\ hashes' = Some(<<hash(left), hash(right)>>)
    /\ UNCHANGED << left, right, inserts >>
    /\ UNCHANGED jobVars

NextPair ==
    \/ \E k \in InsertKeys, v \in InsertValues : InsertLeft(k, v)
    \/ \E k \in InsertKeys, v \in InsertValues : InsertRight(k, v)
    \/ HashPair

SpecHash == InitPair /\ [][NextPair]_vars

(***************************************************************************)
(* What the properties below read off the state.                           *)
(***************************************************************************)
(* from_genesis has run: on the host, or in main's executor construction *)
Extracted == pc = "extracted" \/ Len(steps) >= 3

(* the Genesis value it ran on *)
Subject == IF pc = "extracted" THEN genesis[1] ELSE input_genesis[1]

HasSection(g) ==
    g.variant = "Custom" /\ \E i \in 1..Len(g.config[1].extra_fields) :
                                g.config[1].extra_fields[i].k = "evolve"

SectionOf(g) ==
    LET m == g.config[1].extra_fields
    IN  m[CHOOSE i \in 1..Len(m) : m[i].k = "evolve"].v

AddressTexts ==
    { "0xaaaaaaaaaaaaaaaaaaaaaaaaaaaaaaaaaaaaaaaa", "0xAAAAAAAAAAAAAAAAAAAAAAAAAAAAAAAAAAAAAAAA",
      "0xbbbbbbbbbbbbbbbbbbbbbbbbbbbbbbbbbbbbbbbb", "0xBBBBBBBBBBBBBBBBBBBBBBBBBBBBBBBBBBBBBBBB" }

(* value is a well-typed value for field i of the overlay *)
WellTyped(i, value) ==
    IF i \in {1, 3} THEN value.t = "String" /\ value.s \in AddressTexts
    ELSE value.t = "PosInt"

(* the members of an object section under field i's key *)
RawField(section, i) ==
    SelectSeq(section.kids, LAMBDA m : m.k = EvolveFields[i].key)

(* the section has the shape of the overlay's field set *)
SectionParses(section) ==
    \/ /\ section.t = "Object"
       /\ \A i \in 1..6 : \A j \in 1..Len(RawField(section, i)) :
              RawField(section, i)[j].v.t = "Null" \/ WellTyped(i, RawField(section, i)[j].v)
    \/ /\ section.t = "Array"
       /\ Len(section.kids) = 6
       /\ \A i \in 1..6 : section.kids[i].v.t = "Null" \/ WellTyped(i, section.kids[i].v)

(* the value an overlay field holds for a well-typed raw value *)
GivenValue(i, value) ==
    IF i \in {1, 3}
    THEN (IF value.s \in {"0xaaaaaaaaaaaaaaaaaaaaaaaaaaaaaaaaaaaaaaaa",
                          "0xAAAAAAAAAAAAAAAAAAAAAAAAAAAAAAAAAAAAAAAA"}
          THEN "aaaaaaaaaaaaaaaaaaaaaaaaaaaaaaaaaaaaaaaa"
          ELSE "bbbbbbbbbbbbbbbbbbbbbbbbbbbbbbbbbbbbbbbb")
    ELSE value.n

(***************************************************************************)
(* C1.  Genesis::try_from(id) returns the matching named variant for each  *)
(* of the five known ids, and for every other id fails with                *)
(* ChainNotSupported carrying exactly that id; it never returns Custom or  *)
(* another variant.                                                        *)
(***************************************************************************)
C1_KnownVariant(id) ==
    CASE id = 1 -> "Mainnet"
      [] id = 10 -> "OpMainnet"
      [] id = 17000 -> "Holesky"
      [] id = 59144 -> "Linea"
      [] id = 11155111 -> "Sepolia"
      [] OTHER -> "unknown"

C1_ResolveMatchesKnownSet ==
    resolved # None =>
        LET id == chain_id[1]
            r == resolved[1]
        IN  IF C1_KnownVariant(id) # "unknown"
            THEN r.ok /\ r.v = Some(Named(C1_KnownVariant(id))) /\ genesis = r.v
            ELSE ~r.ok /\ r.err = "ChainNotSupported" /\ r.id = id /\ r.v = None
                 /\ genesis = None

C1_Witness ==
    /\ chain_id = Some(17000)
    /\ resolved # None
    /\ resolved[1].ok
    /\ genesis = Some(Named("Holesky"))

(***************************************************************************)
(* C2.  Cross-family derivation fails with InvalidConversion and produces  *)
(* no ruleset: OpMainnet to ChainSpec, and Mainnet, Sepolia, Holesky or    *)
(* Linea to OpChainSpec.                                                   *)
(***************************************************************************)
C2_CrossFamilyFails ==
    /\ (chain_spec # None /\ input_genesis[1].variant = "OpMainnet") =>
           /\ ~chain_spec[1].ok
           /\ chain_spec[1].err = "InvalidConversion"
           /\ chain_spec[1].v = None
    /\ (op_chain_spec # None
        /\ genesis[1].variant \in {"Mainnet", "Sepolia", "Holesky", "Linea"}) =>
           /\ ~op_chain_spec[1].ok
           /\ op_chain_spec[1].err = "InvalidConversion"
           /\ op_chain_spec[1].v = None

C2_Witness ==
    /\ op_chain_spec # None
    /\ genesis[1].variant = "Linea"
    /\ op_chain_spec[1].err = "InvalidConversion"

(***************************************************************************)
(* C3.  As stated: from_genesis returns an overlay iff the Genesis is      *)
(* Custom and its extra_fields contain the "evolve" section.               *)
(***************************************************************************)
C3_SomeIffSectionPresent ==
    Extracted => (IsSome(evolve) <=> HasSection(Subject))

(* C3 as amended: from_genesis returns an overlay iff the Genesis is       *)
(* Custom, its extra_fields contain the "evolve" section, and the section  *)
(* deserializes into the overlay's field set.                              *)
C3_SomeIffSectionParses ==
    Extracted =>
        (IsSome(evolve) <=> (HasSection(Subject) /\ SectionParses(SectionOf(Subject))))

C3_Witness ==
    /\ Extracted
    /\ HasSection(Subject)
    /\ SectionOf(Subject).t = "Object"
    /\ Len(SectionOf(Subject).kids) = 3
    /\ IsSome(evolve)

(***************************************************************************)
(* C4.  Overlay extraction never fails the job: from_genesis returns None  *)
(* for every named variant, for a Custom value without the "evolve"        *)
(* section, and for one whose section does not deserialize; main goes on   *)
(* from the executor's construction.                                       *)
(***************************************************************************)
C4_AbsentNeverFails ==
    Extracted =>
        /\ (Subject.variant \in NamedVariants => evolve = None)
        /\ (Subject.variant = "Custom" /\ ~HasSection(Subject) => evolve = None)
        /\ (HasSection(Subject) /\ ~SectionParses(SectionOf(Subject)) => evolve = None)
        /\ (Len(steps) = 3 => pc = "executor")

C4_Witness ==
    /\ Len(steps) = 3
    /\ pc = "executor"
    /\ HasSection(Subject)
    /\ ~SectionParses(SectionOf(Subject))
    /\ evolve = None

(***************************************************************************)
(* C5.  Hash agrees with equality: two equal Genesis values feed the       *)
(* hasher identical data.                                                  *)
(***************************************************************************)
C5_EqualValuesHashEqual ==
    (hashes # None /\ GenesisEq(left, right)) => hashes[1][1] = hashes[1][2]

C7_Given(section, i) ==
    /\ Len(RawField(section, i)) = 1
    /\ WellTyped(i, RawField(section, i)[1].v)

C7_HeightGating ==
    header # None =>
        \A j \in 1..Len(Features) :
            LET f == Features[j]
                on == f.feature \in header[1].applied
            IN  IF HasSection(Subject) /\ SectionParses(SectionOf(Subject))
                   /\ SectionOf(Subject).t = "Object"
                THEN /\ (C7_Given(SectionOf(Subject), f.value)
                         /\ C7_Given(SectionOf(Subject), f.height)) =>
                            (on <=> header[1].height >=
                                      RawField(SectionOf(Subject), f.height)[1].v.n)
                     /\ ~C7_Given(SectionOf(Subject), f.value) => ~on
                ELSE TRUE

C7_Witness ==
    /\ header # None
    /\ header[1].height = 99
    /\ HasSection(Subject)
    /\ SectionOf(Subject).t = "Object"
    /\ \A i \in 1..4 : C7_Given(SectionOf(Subject), i)
    /\ header[1].applied = {"base_fee_redirect"}

(***************************************************************************)
(* C8.  main runs deserialize, derive, (build the executor,) execute,      *)
(* commit in that order, and commits a header only if every earlier step   *)
(* succeeded: a malformed input aborts before any derivation, a failed     *)
(* derivation aborts before execution, and nothing is committed.           *)
(***************************************************************************)
C8_Order == <<"deserialize", "derive", "executor", "execute", "commit">>

C8_AbortBeforeLaterSteps ==
    /\ Len(steps) <= Len(C8_Order)
    /\ steps = SubSeq(C8_Order, 1, Len(steps))
    /\ (Len(steps) >= 1 /\ bincode_deserialize(wire) = None) =>
           /\ pc = "aborted"
           /\ steps = <<"deserialize">>
           /\ chain_spec = None /\ header = None /\ committed = None
    /\ (chain_spec # None /\ ~chain_spec[1].ok) =>
           /\ pc = "aborted"
           /\ steps = <<"deserialize", "derive">>
           /\ header = None /\ committed = None
    /\ committed # None =>
           /\ steps = C8_Order
           /\ IsSome(input_genesis)
           /\ chain_spec[1].ok
           /\ committed = header
           /\ committed[1].ruleset = chain_spec[1].v
           /\ IsSome(committed[1].ruleset)

C8_Witness ==
    /\ pc = "aborted"
    /\ steps = <<"deserialize", "derive">>
    /\ chain_spec[1].err = "InvalidConversion"
    /\ committed = None

(***************************************************************************)
(* C9.  As stated: converting any Genesis value to ChainSpec produces a    *)
(* ruleset.                                                                *)
(***************************************************************************)
C9_DerivationTotal ==
    chain_spec # None => (chain_spec[1].ok /\ IsSome(chain_spec[1].v))

(* C9 as amended: the conversion produces a ruleset, of the value's chain, *)
(* for Mainnet, Sepolia, Holesky and every Custom configuration, and for   *)
(* Linea when the bundled payload parses; for OpMainnet it fails with      *)
(* InvalidConversion, and for Linea with a payload that does not parse it  *)
(* fails with the parse error.                                             *)
C9_ExpectedChain(g) ==
    CASE g.variant = "Mainnet" -> 1
      [] g.variant = "Sepolia" -> 11155111
      [] g.variant = "Holesky" -> 17000
      [] g.variant = "Linea" -> 59144
      [] g.variant = "Custom" -> g.config[1].chain_id
      [] OTHER -> 0

C9_DerivationTotalButOpMainnet ==
    chain_spec # None =>
        LET g == input_genesis[1]
            r == chain_spec[1]
        IN  CASE g.variant = "OpMainnet" -> ~r.ok /\ r.err = "InvalidConversion"
              [] g.variant = "Linea" /\ ~payload_ok -> ~r.ok /\ r.err = "SerdeJson"
              [] OTHER -> r.ok /\ IsSome(r.v) /\ r.v[1].chain = C9_ExpectedChain(g)

C9_Witness ==
    /\ chain_spec # None
    /\ input_genesis[1].variant = "Linea"
    /\ chain_spec[1].ok
    /\ chain_spec[1].v[1].chain = 59144

(***************************************************************************)
(* C10.  Every overlay field is independently optional: for an object      *)
(* section whose recognized keys all hold well-typed values, from_genesis  *)
(* returns an overlay in which exactly the given fields are set, to the    *)
(* given values, whatever subset of the six keys is given.                 *)
(***************************************************************************)
C10_AllWellTyped(section) ==
    /\ section.t = "Object"
    /\ \A i \in 1..6 : \A j \in 1..Len(RawField(section, i)) :
           WellTyped(i, RawField(section, i)[j].v)

C10_FieldsIndependent ==
    (Extracted /\ HasSection(Subject) /\ C10_AllWellTyped(SectionOf(Subject))) =>
        /\ IsSome(evolve)
        /\ \A i \in 1..6 :
               OverlayField(evolve[1], i) =
                   IF RawField(SectionOf(Subject), i) = <<>> THEN None
                   ELSE Some(GivenValue(i, RawField(SectionOf(Subject), i)[1].v))

C10_Witness ==
    /\ Extracted
    /\ HasSection(Subject)
    /\ SectionOf(Subject) = JObject(<<Member("mintAdmin", GoodValue(3))>>)
    /\ IsSome(evolve)
    /\ evolve[1].mint_admin = Some("bbbbbbbbbbbbbbbbbbbbbbbbbbbbbbbbbbbbbbbb")
    /\ evolve[1].mint_precompile_activation_height = None

====
